---- MODULE Spec2Model ----
(***************************************************************************)
(* Model of check_cc2652p.py: the ZigbeeModuleChecker class (port          *)
(* availability check, one serial exchange, decoding of the SYS Version    *)
(* response) and main().  Bytes are integers 0..255, a bytes object is a   *)
(* sequence of them, and everything the program prints is appended to out  *)
(* as a record [tag, val].                                                 *)
(***************************************************************************)
EXTENDS Integers, Sequences, FiniteSets, TLC

VARIABLES
    entry,      \* "main": the script is run; "decoder": process_version_response is called directly
    args,       \* parsed command line: reset, version, custom_command, debug
    pc,         \* position of the single thread of control
    out,        \* everything printed so far
    exitCode,   \* -1 while running, else the exit status of the process
    isOpen,     \* the serial device is open (inside the with block)
    lockHeld,   \* the flock(LOCK_EX) taken on the device's descriptor is held
    rxbuf,      \* bytes waiting in the device's input buffer
    trace,      \* calls made on the serial transport, in order
    written,    \* commands passed to ser.write, in order
    inWaiting,  \* value of ser.in_waiting when the read was issued (-1 before)
    exc,        \* exception propagating out of the with block, "none" if none
    response,   \* value returned by send_command / argument of process_version_response
    inspected,  \* what fuser and ps answered, once the port was inspected (else empty)
    decCalls,   \* number of calls of process_version_response
    raised      \* an exception escaped process_version_response

vars == <<entry, args, pc, out, exitCode, isOpen, lockHeld, rxbuf, trace,
          written, inWaiting, exc, response, inspected, decCalls, raised>>

----------------------------------------------------------------------------
(* Bounds of the model *)

\* most bytes the module may have delivered to the input buffer at one time
MaxBuffered == 66
\* most processes fuser reports as holding the port
MaxHolders == 2

(* Constants of the program *)

\* expected length of the version frame (line 96) and end of the revision slice
FrameLen == 14
\* size passed to ser.read when nothing is waiting (line 62)
ReadDefault == 64

----------------------------------------------------------------------------
(* Python values *)

\* None and a bytes object, as the values a "response" can take
None == [none |-> TRUE, bytes |-> <<>>]
Bytes(b) == [none |-> FALSE, bytes |-> b]

\* truth value of a response: None and b'' are falsy
Truthy(r) == ~r.none /\ Len(r.bytes) > 0

\* name returned by get_process_name_by_pid when ps could not be run
NoneName == "<None>"

Min(a, b) == IF a < b THEN a ELSE b

\* s[a:b] on a bytes object (0-based, end exclusive, clipped to the length)
Slice(s, a, b) == SubSeq(s, a + 1, Min(b, Len(s)))

\* the first n bytes of s
Take(s, n) == SubSeq(s, 1, Min(n, Len(s)))

HexDigits == <<"0","1","2","3","4","5","6","7","8","9","a","b","c","d","e","f">>

\* bytes.hex(): two lowercase hexadecimal digits per byte
Hex(b) ==
    [i \in 1..(2 * Len(b)) |->
        LET byte == b[(i + 1) \div 2]
        IN  IF i % 2 = 1 THEN HexDigits[(byte \div 16) + 1]
                         ELSE HexDigits[(byte % 16) + 1]]

startswith_m(s, prefix) ==
    /\ Len(s) >= Len(prefix)
    /\ SubSeq(s, 1, Len(prefix) - 1) = SubSeq(prefix, 1, Len(prefix) - 1)

\* bytes.startswith(prefix)
startswith(s, prefix) ==
    /\ Len(s) >= Len(prefix)
    /\ SubSeq(s, 1, Len(prefix)) = prefix

P(tag, val) == [tag |-> tag, val |-> val]

----------------------------------------------------------------------------
(* Wire format *)

PrefixCC2652 == <<254, 10, 97, 2>>
PrefixCC2530 == <<254, 14, 97, 2>>
PrefixCC2538 == <<254, 16, 97, 2>>

version_command == <<254, 0, 33, 2, 35>>

----------------------------------------------------------------------------
(* What the environment can do: the module's replies, the command line,    *)
(* the answers of fuser and ps.                                            *)

\* prefixes a reply can start with: the three known ones and two others
ReplyPrefixes ==
    {PrefixCC2652, PrefixCC2530, PrefixCC2538, <<0, 1, 2, 3>>, <<254, 10, 97, 3>>}

\* the ten bytes at offsets 4..13
ReplyBodies ==
    { <<2, 5, 2, 1, 3, 170, 187, 204, 221, 238>>,
      <<1, 0, 255, 16, 7, 0, 18, 52, 86, 120>> }

\* asynchronous bytes following the frame: 11 22 33 ...
AsyncByte(i) == (17 * i) % 256

Stream(prefix, body) ==
    [i \in 1..MaxBuffered |->
        IF i <= 4 THEN prefix[i]
        ELSE IF i <= FrameLen THEN body[i - 4]
        ELSE AsyncByte(i - FrameLen)]

\* every byte string the module may deliver: any leading part of a stream
Replies ==
    { Take(Stream(p, b), n) : p \in ReplyPrefixes, b \in ReplyBodies, n \in 0..MaxBuffered }

\* bytes that may still arrive while a read of already buffered bytes is served
LateArrivals == { <<>>, <<AsyncByte(1)>>, <<AsyncByte(1), AsyncByte(2)>> }

\* input left over from before the exchange
StaleInputs == { <<>>, <<254, 0>> }

\* --custom-command: absent, or the bytes of the hex string given
CustomCommands == { None, Bytes(<<254, 1, 33, 1, 0>>) }

ArgSets ==
    [reset : BOOLEAN, version : BOOLEAN, custom_command : CustomCommands, debug : BOOLEAN]

\* what ps answers for one pid: a command name, nothing, or a failure
PsOutcomes ==
    { [err |-> FALSE, comm |-> "node"], [err |-> FALSE, comm |-> "minicom"],
      [err |-> FALSE, comm |-> ""], [err |-> TRUE, comm |-> ""] }

RECURSIVE SeqsUpTo(_, _)
SeqsUpTo(S, n) ==
    IF n = 0 THEN { <<>> }
    ELSE LET shorter == SeqsUpTo(S, n - 1)
         IN  shorter \cup { Append(s, x) : s \in shorter, x \in S }

\* what the inspection of the port yields: popen fails, or fuser lists the
\* holders (pid 1234, 1235, ...), each with the answer ps gives for it
Inspections ==
    { [failed |-> TRUE, holders |-> <<>>] } \cup
    { [failed |-> FALSE, holders |-> h] : h \in SeqsUpTo(PsOutcomes, MaxHolders) }

Pid(i) == 1233 + i

----------------------------------------------------------------------------
(* Port availability *)

\* get_process_name_by_pid: the output of ps, stripped; None when it fails
get_process_name_by_pid(ps) == IF ps.err THEN NoneName ELSE ps.comm

\* filter(None, names): drops None and empty names
FilterNone(names) == SelectSeq(names, LAMBDA n : n # NoneName /\ n # "")

check_port_availability_m(insp) ==
    IF insp.failed
    THEN [ret |-> TRUE,
          prints |-> << P("Error checking port availability", "exception") >>]
    ELSE IF Len(insp.holders) > 0
    THEN LET pids == [i \in 1..Len(insp.holders) |-> Pid(i)]
             process_names ==
                 FilterNone([i \in 1..Len(insp.holders) |->
                                get_process_name_by_pid(insp.holders[i])])
         IN  [ret |-> FALSE,
              prints |->
                  << P("The port is occupied", <<pids, process_names>>) >> \o
                  << P("Please stop the process or release the port manually", <<>>) >>]
    ELSE [ret |-> TRUE, prints |-> <<>>]

\* check_port_availability: what it returns and what it prints, given what
\* fuser and ps answer
check_port_availability(insp) ==
    IF insp.failed
    THEN [ret |-> FALSE,
          prints |-> << P("Error checking port availability", "exception") >>]
    ELSE IF Len(insp.holders) > 0
    THEN LET pids == [i \in 1..Len(insp.holders) |-> Pid(i)]
             process_names ==
                 FilterNone([i \in 1..Len(insp.holders) |->
                                get_process_name_by_pid(insp.holders[i])])
         IN  [ret |-> FALSE,
              prints |->
                  << P("The port is occupied", <<pids, process_names>>) >> \o
                  ( IF \E i \in 1..Len(process_names) : process_names[i] = "node"
                    THEN << P("The process 'node' is running on the port", <<>>),
                            P("Please try stopping the zigbee2mqtt service", "systemctl stop zigbee2mqtt") >>
                    ELSE << P("Please stop the process or release the port manually", <<>>) >> )]
    ELSE [ret |-> TRUE, prints |-> <<>>]

----------------------------------------------------------------------------
(* Frame decoder *)

\* response[i] raises IndexError unless i < len(response)
InRange(r, i) == i < Len(r)

process_version_m(r, chip_type, debug) ==
    LET dbg == IF debug THEN << P("Parsing response", Hex(r)) >> ELSE <<>>
    IN  IF \A i \in 4..8 : InRange(r, i)
        THEN dbg \o
             << P("SYS Version response detected for", chip_type),
                P("Transport Version", r[5]),
                P("Product ID", <<r[6], chip_type>>),
                P("Major Release", r[7]),
                P("Minor Release", r[8]),
                P("Maintenance Release", r[9]),
                P("Stack Version", <<r[7], r[8], r[9]>>),
                P("Revision", Hex(Slice(r, 10, FrameLen))) >>
        ELSE dbg \o << P("Error while parsing the response", "IndexError") >>

\* process_version: the fields are read first (an index out of range raises
\* IndexError, a slice never does), then printed; any exception is caught
process_version(r, chip_type, debug) ==
    LET dbg == IF debug THEN << P("Parsing response", Hex(r)) >> ELSE <<>>
    IN  IF \A i \in 4..8 : InRange(r, i)
        THEN dbg \o
             << P("SYS Version response detected for", chip_type),
                P("Transport Version", r[5]),
                P("Product ID", <<r[6], chip_type>>),
                P("Major Release", r[7]),
                P("Minor Release", r[8]),
                P("Maintenance Release", r[9]),
                P("Stack Version", <<r[7], r[8], r[9]>>),
                P("Revision", Hex(Slice(r, 9, FrameLen))) >>
        ELSE dbg \o << P("Error while parsing the response", "IndexError") >>

AsyncData_m(r) ==
    IF Len(r) >= FrameLen
    THEN << P("Additional asynchronous data detected. Skipping:", <<>>),
            P("Raw data", Hex(Slice(r, FrameLen, Len(r)))) >>
    ELSE <<>>

\* the check for remaining bytes after the frame (lines 95-99)
AsyncData(r) ==
    IF Len(r) > FrameLen
    THEN << P("Additional asynchronous data detected. Skipping:", <<>>),
            P("Raw data", Hex(Slice(r, FrameLen, Len(r)))) >>
    ELSE <<>>

\* the prefix dispatch (lines 85-93)
Classify(r, debug) ==
    IF startswith(r, PrefixCC2652) THEN process_version(r, "CC2652", debug)
    ELSE IF startswith(r, PrefixCC2530) THEN process_version(r, "CC2530", debug)
    ELSE IF startswith(r, PrefixCC2538) THEN process_version(r, "CC2538", debug)
    ELSE << P("Unknown chip detected. Skipping specialized parsing.", <<>>),
            P("Raw response", Hex(r)) >>

process_version_response_m(resp, debug) ==
    IF debug /\ resp.none
    THEN [prints |-> <<>>, raised |-> TRUE]
    ELSE LET r == resp.bytes
             dbg == IF debug THEN << P("Raw response received", Hex(r)) >> ELSE <<>>
         IN  [prints |-> dbg \o Classify(r, debug) \o AsyncData(r),
              raised |-> FALSE]

\* process_version_response: what it prints and whether an exception escapes.
\* With debug set, response.hex() is evaluated first and raises
\* AttributeError on None.
process_version_response(resp, debug) ==
    IF debug /\ resp.none
    THEN [prints |-> <<>>, raised |-> TRUE]
    ELSE LET r == resp.bytes
             dbg == IF debug THEN << P("Raw response received", Hex(r)) >> ELSE <<>>
         IN  IF ~Truthy(resp)
             THEN [prints |-> dbg \o << P("No response received.", <<>>) >>,
                   raised |-> FALSE]
             ELSE [prints |-> dbg \o Classify(r, debug) \o AsyncData(r),
                   raised |-> FALSE]

----------------------------------------------------------------------------
(* Serial exchange *)

ReadSize_m(in_waiting) == ReadDefault

\* the size argument of the read: ser.in_waiting or 64
ReadSize(in_waiting) == IF in_waiting # 0 THEN in_waiting ELSE ReadDefault

\* ser.read(size): at most size of the bytes that are there before the timeout
SerialRead(size, available) == Take(available, size)

CommandFor_m(a) ==
    IF a.custom_command.none THEN version_command ELSE a.custom_command.bytes

\* the command check() sends
CommandFor(a) == version_command

----------------------------------------------------------------------------
(* Initial states *)

\* the script is started with some command line
InitMain ==
    /\ entry = "main"
    /\ args \in ArgSets
    /\ pc = "main"
    /\ response = None

\* process_version_response is called on a checker, with any response value
InitDecoder ==
    /\ entry = "decoder"
    /\ args \in [reset : {FALSE}, version : {FALSE}, custom_command : {None}, debug : BOOLEAN]
    /\ pc = "decoder"
    /\ response \in {None} \cup { Bytes(b) : b \in Replies }

Init ==
    /\ InitMain \/ InitDecoder
    /\ out = <<>>
    /\ exitCode = -1
    /\ isOpen = FALSE
    /\ lockHeld = FALSE
    /\ rxbuf = <<>>
    /\ trace = <<>>
    /\ written = <<>>
    /\ inWaiting = -1
    /\ exc = "none"
    /\ inspected = <<>>
    /\ decCalls = 0
    /\ raised = FALSE

----------------------------------------------------------------------------
(* main() and check() *)

\* main: both branches of the reset / version test call check()
Main ==
    /\ pc = "main"
    /\ IF args.reset
       THEN /\ out' = Append(out, P("Sending reset command...", <<>>))
            /\ pc' = "check"
       ELSE IF args.version \/ ~args.reset
       THEN /\ out' = out
            /\ pc' = "check"
       ELSE /\ out' = out
            /\ pc' = "exited"
    /\ exitCode' = IF pc' = "exited" THEN 0 ELSE exitCode
    /\ UNCHANGED <<entry, args, inspected, isOpen, lockHeld, rxbuf, trace, written,
                   inWaiting, exc, response, decCalls, raised>>

\* check, first statement: sys.exit(1) unless the port is available
CheckAvailability ==
    /\ pc = "check"
    /\ \E insp \in Inspections :
          LET r == check_port_availability(insp)
          IN  /\ inspected' = <<insp>>
              /\ out' = out \o r.prints
              /\ IF r.ret
                 THEN /\ pc' = "send_command"
                      /\ exitCode' = exitCode
                 ELSE /\ pc' = "exited"
                      /\ exitCode' = 1
    /\ UNCHANGED <<entry, args, isOpen, lockHeld, rxbuf, trace, written,
                   inWaiting, exc, response, decCalls, raised>>

CheckResponse_m ==
    /\ pc = "returned"
    /\ LET d == process_version_response(response, args.debug)
       IN  /\ out' = out \o d.prints
           /\ raised' = d.raised
           /\ decCalls' = decCalls + 1
    /\ pc' = "exited"
    /\ exitCode' = IF raised' THEN 1 ELSE 0
    /\ UNCHANGED <<entry, args, inspected, isOpen, lockHeld, rxbuf, trace, written,
                   inWaiting, exc, response>>

\* check, after send_command returned: decode the response if there is one
CheckResponse ==
    /\ pc = "returned"
    /\ IF Truthy(response)
       THEN LET d == process_version_response(response, args.debug)
            IN  /\ out' = out \o d.prints
                /\ raised' = d.raised
                /\ decCalls' = decCalls + 1
       ELSE UNCHANGED <<out, raised, decCalls>>
    /\ pc' = "exited"
    /\ exitCode' = IF raised' THEN 1 ELSE 0
    /\ UNCHANGED <<entry, args, inspected, isOpen, lockHeld, rxbuf, trace, written,
                   inWaiting, exc, response>>

\* a direct call of process_version_response
DecoderCall ==
    /\ pc = "decoder"
    /\ LET d == process_version_response(response, args.debug)
       IN  /\ out' = out \o d.prints
           /\ raised' = d.raised
    /\ decCalls' = decCalls + 1
    /\ pc' = "decoded"
    /\ UNCHANGED <<entry, args, inspected, exitCode, isOpen, lockHeld, rxbuf, trace,
                   written, inWaiting, exc, response>>

----------------------------------------------------------------------------
(* send_command, statement by statement.  A statement that raises leaves   *)
(* the with block through the exit of the context manager, which closes    *)
(* the device.                                                             *)

\* serial.Serial(port, baudrate, timeout): opens the device or raises
SerialOpen ==
    /\ pc = "send_command"
    /\ trace' = Append(trace, "open")
    /\ \E outcome \in {"ok", "SerialException", "Exception"}, stale \in StaleInputs :
          IF outcome = "ok"
          THEN /\ isOpen' = TRUE
               /\ rxbuf' = stale
               /\ pc' = "flock"
               /\ exc' = exc
          ELSE /\ exc' = outcome
               /\ pc' = "except"
               /\ UNCHANGED <<isOpen, rxbuf>>
    /\ UNCHANGED <<entry, args, inspected, out, exitCode, lockHeld, written, inWaiting,
                   response, decCalls, raised>>

\* fcntl.flock(ser.fileno(), LOCK_EX)
Flock ==
    /\ pc = "flock"
    /\ trace' = Append(trace, "flock")
    /\ \E outcome \in {"ok", "Exception"} :
          IF outcome = "ok"
          THEN /\ lockHeld' = TRUE
               /\ pc' = "reset_input_buffer"
               /\ exc' = exc
          ELSE /\ exc' = outcome
               /\ pc' = "with_exit"
               /\ lockHeld' = lockHeld
    /\ UNCHANGED <<entry, args, inspected, out, exitCode, isOpen, rxbuf, written,
                   inWaiting, response, decCalls, raised>>

\* ser.reset_input_buffer()
ResetInputBuffer ==
    /\ pc = "reset_input_buffer"
    /\ trace' = Append(trace, "reset_input_buffer")
    /\ \E outcome \in {"ok", "SerialException"} :
          IF outcome = "ok"
          THEN /\ rxbuf' = <<>>
               /\ pc' = "write"
               /\ exc' = exc
          ELSE /\ exc' = outcome
               /\ pc' = "with_exit"
               /\ rxbuf' = rxbuf
    /\ UNCHANGED <<entry, args, inspected, out, exitCode, isOpen, lockHeld, written,
                   inWaiting, response, decCalls, raised>>

\* the debug print of the command and ser.write(command)
Write ==
    /\ pc = "write"
    /\ LET command == CommandFor(args)
       IN  /\ out' = IF args.debug THEN Append(out, P("Sending command", Hex(command)))
                                   ELSE out
           /\ written' = Append(written, command)
    /\ trace' = Append(trace, "write")
    /\ \E outcome \in {"ok", "SerialException"} :
          IF outcome = "ok"
          THEN /\ pc' = "sleep"
               /\ exc' = exc
          ELSE /\ exc' = outcome
               /\ pc' = "with_exit"
    /\ UNCHANGED <<entry, args, inspected, exitCode, isOpen, lockHeld, rxbuf, inWaiting,
                   response, decCalls, raised>>

\* time.sleep(0.5): meanwhile the module delivers what it delivers
Sleep ==
    /\ pc = "sleep"
    /\ trace' = Append(trace, "sleep")
    /\ \E reply \in Replies : rxbuf' = rxbuf \o reply
    /\ pc' = "read"
    /\ UNCHANGED <<entry, args, inspected, out, exitCode, isOpen, lockHeld, written,
                   inWaiting, exc, response, decCalls, raised>>

\* response = ser.read(ser.in_waiting or 64), then the test of the response:
\* an empty one is reported and None is returned.  late is what the module
\* delivers before the read times out.
Read ==
    /\ pc = "read"
    /\ trace' = Append(trace, "read")
    /\ inWaiting' = Len(rxbuf)
    /\ \E outcome \in {"ok", "SerialException"},
          late \in (IF Len(rxbuf) = 0 THEN Replies ELSE LateArrivals) :
          IF outcome = "ok"
          THEN LET data == SerialRead(ReadSize(Len(rxbuf)), rxbuf \o late)
               IN  /\ rxbuf' = SubSeq(rxbuf \o late, Len(data) + 1, Len(rxbuf \o late))
                   /\ IF Len(data) = 0
                      THEN /\ out' = Append(out, P("No response received. The module might not be working.", <<>>))
                           /\ response' = None
                      ELSE /\ out' = out
                           /\ response' = Bytes(data)
                   /\ exc' = exc
          ELSE /\ exc' = outcome
               /\ UNCHANGED <<rxbuf, out, response>>
    /\ pc' = "with_exit"
    /\ UNCHANGED <<entry, args, inspected, exitCode, isOpen, lockHeld, written,
                   decCalls, raised>>

WithExit_m ==
    /\ pc = "with_exit"
    /\ IF exc = "none"
       THEN /\ trace' = Append(trace, "close")
            /\ isOpen' = FALSE
            /\ lockHeld' = FALSE
       ELSE UNCHANGED <<trace, isOpen, lockHeld>>
    /\ pc' = IF exc = "none" THEN "returned" ELSE "except"
    /\ UNCHANGED <<entry, args, inspected, out, exitCode, rxbuf, written, inWaiting,
                   exc, response, decCalls, raised>>

\* leaving the with block, normally or by an exception: the device is
\* closed, and closing the descriptor drops the lock taken on it
WithExit ==
    /\ pc = "with_exit"
    /\ trace' = Append(trace, "close")
    /\ isOpen' = FALSE
    /\ lockHeld' = FALSE
    /\ pc' = IF exc = "none" THEN "returned" ELSE "except"
    /\ UNCHANGED <<entry, args, inspected, out, exitCode, rxbuf, written, inWaiting,
                   exc, response, decCalls, raised>>

\* the two except clauses: report and return None
Except ==
    /\ pc = "except"
    /\ out' = Append(out, IF exc = "SerialException"
                          THEN P("Error", exc)
                          ELSE P("Unexpected error", exc))
    /\ response' = None
    /\ exc' = "none"
    /\ pc' = "returned"
    /\ UNCHANGED <<entry, args, inspected, exitCode, isOpen, lockHeld, rxbuf, trace,
                   written, inWaiting, decCalls, raised>>

----------------------------------------------------------------------------

Next ==
    \/ Main
    \/ CheckAvailability
    \/ SerialOpen
    \/ Flock
    \/ ResetInputBuffer
    \/ Write
    \/ Sleep
    \/ Read
    \/ WithExit
    \/ Except
    \/ CheckResponse
    \/ DecoderCall

Spec == Init /\ [][Next]_vars

----------------------------------------------------------------------------
(* Vocabulary of the properties *)

\* the values printed under a tag, in order
Vals(tag) ==
    LET sel == SelectSeq(out, LAMBDA p : p.tag = tag)
    IN  [i \in 1..Len(sel) |-> sel[i].val]

Has(tag) == \E i \in 1..Len(out) : out[i].tag = tag

Count(s, x) == Cardinality({ i \in 1..Len(s) : s[i] = x })

KnownPrefixes == { <<254, 10, 97, 2>>, <<254, 14, 97, 2>>, <<254, 16, 97, 2>> }

KnownPrefix(r) == Len(r) >= 4 /\ SubSeq(r, 1, 4) \in KnownPrefixes

\* the chip variant that belongs to each known prefix
VariantOf(r) ==
    IF SubSeq(r, 1, 4) = <<254, 10, 97, 2>> THEN "CC2652"
    ELSE IF SubSeq(r, 1, 4) = <<254, 14, 97, 2>> THEN "CC2530"
    ELSE "CC2538"

\* the lines that report decoded version fields
FieldTags ==
    { "SYS Version response detected for", "Transport Version", "Product ID",
      "Major Release", "Minor Release", "Maintenance Release", "Stack Version",
      "Revision" }

\* the lines by which the decoder reports its outcome
OutcomeTags ==
    FieldTags \cup
    { "Error while parsing the response", "Unknown chip detected. Skipping specialized parsing.",
      "Raw response", "No response received.",
      "Additional asynchronous data detected. Skipping:", "Raw data" }

FieldLines(prints) == SelectSeq(prints, LAMBDA p : p.tag \in FieldTags \cup {"Error while parsing the response"})

NoFields == \A t \in FieldTags : ~Has(t)

\* process_version_response has run on a bytes object
DecodedBytes == decCalls = 1 /\ ~response.none

Scenario1 == <<254, 10, 97, 2, 2, 5, 2, 1, 3, 170, 187, 204, 221, 238>>

\* the port inspection found the port unavailable
AvailabilityFailed ==
    /\ inspected # <<>>
    /\ inspected[1].failed \/ Len(inspected[1].holders) > 0

NodeHolds ==
    /\ inspected # <<>>
    /\ ~inspected[1].failed
    /\ \E i \in 1..Len(inspected[1].holders) :
          ~inspected[1].holders[i].err /\ inspected[1].holders[i].comm = "node"

TransportErrorReported == Has("Error") \/ Has("Unexpected error")

\* the calls of one complete exchange
Exchange == <<"open", "flock", "reset_input_buffer", "write", "sleep", "read", "close">>

\* a trace is the beginning of an exchange, possibly cut short by an
\* exception (after which the opened device is closed)
ExchangeOrder ==
    \/ \E k \in 0..Len(Exchange) : trace = SubSeq(Exchange, 1, k)
    \/ \E k \in 2..(Len(Exchange) - 1) : trace = Append(SubSeq(Exchange, 1, k), "close")

----------------------------------------------------------------------------
(* Properties *)

\* C1: a 14-byte response with a known prefix is reported as the chip of
\* that prefix, with transport version, product id, major, minor and
\* maintenance release equal to the bytes at offsets 4..8 and the revision
\* equal to the bytes at offsets 9..13, and no trailing data is reported.
C1_KnownFrameDecodes ==
    (DecodedBytes /\ Len(response.bytes) = 14 /\ KnownPrefix(response.bytes)) =>
        LET r == response.bytes
        IN  /\ Vals("SYS Version response detected for") = << VariantOf(r) >>
            /\ Vals("Transport Version") = << r[5] >>
            /\ Vals("Product ID") = << <<r[6], VariantOf(r)>> >>
            /\ Vals("Major Release") = << r[7] >>
            /\ Vals("Minor Release") = << r[8] >>
            /\ Vals("Maintenance Release") = << r[9] >>
            /\ Vals("Revision") = << Hex(<<r[10], r[11], r[12], r[13], r[14]>>) >>
            /\ r = Scenario1 =>
                  Vals("Revision") = << <<"a","a","b","b","c","c","d","d","e","e">> >>
            /\ ~Has("Raw data")
            /\ ~Has("Additional asynchronous data detected. Skipping:")
            /\ ~Has("Error while parsing the response")
            /\ ~raised

C1_Witness ==
    /\ DecodedBytes
    /\ response.bytes = Scenario1
    /\ Vals("Transport Version") = << 2 >>
    /\ Has("Revision")

\* C2: for a non-empty response, trailing data is reported exactly when the
\* response is longer than 14 bytes, it is then the bytes from offset 14 to
\* the end, whether or not the prefix is known, and the fields decoded from
\* a response with a known prefix are those decoded from its first 14 bytes.
C2_TrailingData ==
    (DecodedBytes /\ Len(response.bytes) > 0) =>
        LET r == response.bytes
        IN  /\ Has("Raw data") <=> Len(r) > 14
            /\ Has("Additional asynchronous data detected. Skipping:") <=> Len(r) > 14
            /\ Len(r) > 14 =>
                  Vals("Raw data") = << Hex([i \in 1..(Len(r) - 14) |-> r[14 + i]]) >>
            /\ r = Scenario1 \o <<17, 34>> =>
                  Vals("Raw data") = << <<"1","1","2","2">> >>
            /\ KnownPrefix(r) =>
                  FieldLines(out) =
                      FieldLines(process_version_response(Bytes(Take(r, 14)), args.debug).prints)

C2_Witness ==
    /\ DecodedBytes
    /\ response.bytes = Scenario1 \o <<17, 34>>
    /\ Vals("Raw data") = << <<"1","1","2","2">> >>
    /\ Vals("Major Release") = << 2 >>

\* C3: a non-empty response whose first 4 bytes are not a known prefix is
\* reported as an unknown chip together with all of its bytes, no version
\* field is reported and no exception escapes.
C3_UnrecognizedChip ==
    (DecodedBytes /\ Len(response.bytes) > 0 /\ ~KnownPrefix(response.bytes)) =>
        /\ Has("Unknown chip detected. Skipping specialized parsing.")
        /\ Vals("Raw response") = << Hex(response.bytes) >>
        /\ response.bytes = <<0, 1, 2, 3>> =>
              Vals("Raw response") = << <<"0","0","0","1","0","2","0","3">> >>
        /\ NoFields
        /\ ~Has("Error while parsing the response")
        /\ ~raised

C3_Witness ==
    /\ DecodedBytes
    /\ response.bytes = <<0, 1, 2, 3>>
    /\ Has("Unknown chip detected. Skipping specialized parsing.")

\* C4: version fields are reported only for a response of at least 14 bytes
\* with a known prefix; a response with a known prefix and fewer than 14
\* bytes gets a decode error and no version field.
C4_ShortFrameIsDecodeError ==
    DecodedBytes =>
        LET r == response.bytes
        IN  /\ ~NoFields => (Len(r) >= 14 /\ KnownPrefix(r))
            /\ (KnownPrefix(r) /\ Len(r) < 14) =>
                  /\ Has("Error while parsing the response")
                  /\ NoFields

\* C5: when the availability check fails (a holder is reported or the
\* inspection fails) the run is over with exit code 1 and nothing was done
\* on the serial device; when a holder is named node the hint naming the
\* zigbee2mqtt service has been printed.
C5_AbortBeforeTransport ==
    AvailabilityFailed =>
        /\ pc = "exited"
        /\ exitCode = 1
        /\ trace = <<>>
        /\ written = <<>>
        /\ ~isOpen
        /\ ~lockHeld
        /\ NodeHolds =>
              Vals("Please try stopping the zigbee2mqtt service") = << "systemctl stop zigbee2mqtt" >>

C5_Witness ==
    /\ NodeHolds
    /\ Len(inspected[1].holders) = 1
    /\ exitCode = 1
    /\ Has("Please try stopping the zigbee2mqtt service")

\* C6: once send_command has returned, by whatever path, the device is
\* closed and the lock is not held; the lock is held only while the device
\* is open inside send_command.
C6_LockReleased ==
    /\ pc \in {"except", "returned", "exited"} => (~isOpen /\ ~lockHeld)
    /\ lockHeld =>
          (isOpen /\ pc \in {"reset_input_buffer", "write", "sleep", "read", "with_exit"})
    /\ isOpen =>
          pc \in {"flock", "reset_input_buffer", "write", "sleep", "read", "with_exit"}

C6_Witness ==
    /\ pc = "returned"
    /\ Count(trace, "flock") = 1
    /\ Count(trace, "read") = 1
    /\ Has("Error")
    /\ ~lockHeld

C8_ExitCode ==
    (entry = "main" /\ pc = "exited") =>
        /\ exitCode \in {0, 1}
        /\ exitCode = 1 <=> AvailabilityFailed
        /\ ~raised
        /\ (Count(trace, "read") = 1 /\ ~TransportErrorReported /\ response.none) =>
              Has("No response received. The module might not be working.")
        /\ (~response.none /\ ~KnownPrefix(response.bytes)) =>
              Has("Unknown chip detected. Skipping specialized parsing.")

C8_Witness ==
    /\ entry = "main"
    /\ pc = "exited"
    /\ exitCode = 0
    /\ Has("Error")
    /\ args.debug

\* C9: on an empty response the decoder reports no response and nothing
\* else, and no exception escapes; in a run, an exchange that read nothing
\* ends without the decoder being entered.
C9_EmptyIsNoResponse ==
    /\ (decCalls = 1 /\ response = Bytes(<<>>)) =>
          /\ Vals("No response received.") = << <<>> >>
          /\ \A t \in OutcomeTags \ {"No response received."} : ~Has(t)
          /\ ~raised
    /\ (entry = "main" /\ pc \in {"returned", "exited"} /\ ~Truthy(response)) =>
          /\ decCalls = 0
          /\ \A t \in OutcomeTags : ~Has(t)

C9_Witness ==
    /\ decCalls = 1
    /\ response = Bytes(<<>>)
    /\ args.debug
    /\ Has("No response received.")

\* C10 (as stated): the calls of an exchange happen in the order lock, clear
\* input, write, settle delay, single read, and the response returned is
\* never longer than 64 bytes.
C10_OrderAndCap64 ==
    /\ ExchangeOrder
    /\ (entry = "main" /\ ~response.none) => Len(response.bytes) <= 64

\* C10 (amended): same order; the response is never longer than the number
\* of bytes that were waiting when the read was issued, which can exceed 64,
\* and only when none were waiting is it limited to 64 bytes.
C10_OrderAndReadSize ==
    /\ ExchangeOrder
    /\ (entry = "main" /\ ~response.none) =>
          /\ inWaiting >= 0
          /\ inWaiting > 0 => Len(response.bytes) <= inWaiting
          /\ inWaiting = 0 => Len(response.bytes) <= 64

C10_Witness ==
    /\ entry = "main"
    /\ pc = "returned"
    /\ trace = Exchange
    /\ inWaiting > 64
    /\ ~response.none
    /\ Len(response.bytes) > 64

====
